---- MODULE Spec2Model ----
(***************************************************************************)
(* Model of src/src/12-panchayat-election.js: the election object built by *)
(* createElection (closure state votes, registeredVoters, votedVoters,     *)
(* candidateMap) and its methods registerVoter, castVote, getResults and   *)
(* getWinner.                                                              *)
(*                                                                         *)
(* JavaScript values are records [t, s, n]: t is the typeof tag, s the     *)
(* string payload, n the numeric payload.  null is modelled, where a       *)
(* method returns "an object or null", as the empty sequence.              *)
(*                                                                         *)
(* call, ret, invoked, results and winner record the last call, what it    *)
(* returned and which callback it invoked; successCount counts, per voter  *)
(* id, the castVote calls that invoked onSuccess.                          *)
(***************************************************************************)
EXTENDS Integers, Sequences, FiniteSets, TLC

VARIABLES candidateMap, votes, registeredVoters, votedVoters,
          call, ret, invoked, results, winner, successCount

vars == <<candidateMap, votes, registeredVoters, votedVoters,
          call, ret, invoked, results, winner, successCount>>

state == <<votes, registeredVoters, votedVoters>>

\* tallyPure: the tally objects in memory (an object's identity is its
\* index), the last call's arguments and result, and the run of
\* consecutive calls that fed a result back in with the same candidate id
VARIABLES tallyHeap, tallyCall, tallyRet, tallyRun

tallyVars == <<tallyHeap, tallyCall, tallyRet, tallyRun>>

\* countVotesInRegions: the region objects in memory (a reference is an
\* index, the root is 1), the stack of active calls, and the value the
\* outermost call returned
VARIABLES regionNodes, regionStack, regionRet, regionDone

regionVars == <<regionNodes, regionStack, regionRet, regionDone>>

\* createVoteValidator: the rules the validator closed over, the voter of
\* the last call and what the call produced
VARIABLES rules, validatorCall, validatorRet

validatorVars == <<rules, validatorCall, validatorRet>>

\* several elections: the closure environments in memory (an environment
\* holds the votes, registeredVoters, votedVoters and candidateMap of one
\* createElection call; its identity is its index), the environment each
\* election's methods close over, the last call, and what its onSuccess
\* callback observed from inside
VARIABLES stores, elections, storeCall, inside

storeVars == <<stores, elections, storeCall, inside>>

\* results handed out: the objects in memory (the caller's candidate
\* objects and the entries getResults makes; a reference is an index), the
\* arrays in memory, the environment of the one election, and the last call
\* with the reference it returned
VARIABLES objects, arrays, scope, scopeCall

resultVars == <<objects, arrays, scope, scopeCall>>

\* what a call on one of them leaves alone
notElection == <<tallyVars, regionVars, validatorVars, storeVars, resultVars>>
notTally == <<vars, regionVars, validatorVars, storeVars, resultVars>>
notRegions == <<vars, tallyVars, validatorVars, storeVars, resultVars>>
notValidator == <<vars, tallyVars, regionVars, storeVars, resultVars>>
notStores == <<vars, tallyVars, regionVars, validatorVars, resultVars>>
notResults == <<vars, tallyVars, regionVars, validatorVars, storeVars>>

----------------------------------------------------------------------------
(* Bounds *)

MaxCands == 3
MaxVoters == 2
MaxTallies == 4
MaxRegions == 3
MaxArrays == 2

----------------------------------------------------------------------------
(* JavaScript values *)

Undef == [t |-> "undefined", s |-> "", n |-> 0]
Null == [t |-> "null", s |-> "", n |-> 0]
Str(x) == [t |-> "string", s |-> x, n |-> 0]
Num(k) == [t |-> "number", s |-> "", n |-> k]
NaN == [t |-> "number", s |-> "NaN", n |-> 0]
Bool(b) == [t |-> "boolean", s |-> IF b THEN "true" ELSE "false", n |-> 0]
Fn(label) == [t |-> "function", s |-> label, n |-> 0]

\* typeof v
TypeOf(v) == v.t

\* ToBoolean(v), as used by `!v` and `a || b`
Truthy(v) ==
    CASE v.t = "undefined" -> FALSE
      [] v.t = "null" -> FALSE
      [] v.t = "string" -> v.s # ""
      [] v.t = "number" -> v.s # "NaN" /\ v.n # 0
      [] v.t = "boolean" -> v.s = "true"
      [] OTHER -> TRUE

\* a < k for a value a whose typeof is 'number' (NaN compares false)
NumLess(a, k) == a.s # "NaN" /\ a.n < k

----------------------------------------------------------------------------
(* Inputs *)

AllVoterNames == <<"V1", "V2", "V3", "V4">>
VoterIdStrings == {AllVoterNames[i] : i \in 1..MaxVoters}

\* values a caller may pass as an id: known strings, the empty string, nothing
IdValues == {Str(x) : x \in VoterIdStrings} \cup {Str(""), Undef}
NameValues == {Str("Mohan"), Str(""), Undef}
AgeValues == {Num(17), Num(18), NaN, Str("25")}

NoVoter == [kind |-> "null", id |-> Undef, name |-> Undef, age |-> Undef]
\* every id with every age under a good name, and with every name at a good age
VoterObjects ==
    [kind : {"object"}, id : IdValues, name : {Str("Mohan")}, age : AgeValues]
      \cup [kind : {"object"}, id : IdValues, name : NameValues, age : {Num(18)}]
Voters == {NoVoter} \cup VoterObjects

CandidatePool ==
    { [id |-> "C1", name |-> "Sarpanch Ram", party |-> "Janata"],
      [id |-> "C2", name |-> "Pradhan Sita", party |-> "Lok"],
      [id |-> "C3", name |-> "Mukhiya Gita", party |-> "Janata"],
      [id |-> "C1", name |-> "Shyam", party |-> "Lok"] }

CandidateLists == UNION {[1..k -> CandidatePool] : k \in 0..MaxCands}

CandidateIdArgs == {"C1", "C2", "C3", "CX"}
VoterIdArgs == {Str(x) : x \in VoterIdStrings} \cup {Undef}

SuccessCallbacks == {Fn("voted"), Undef}
ErrorCallbacks == {Fn("error"), Undef}
SortFns == {Undef, Str("votes"), Fn("votesAsc"), Fn("keep")}

NoCall == [op |-> "createElection", voter |-> NoVoter, voterId |-> Undef,
           candidateId |-> "", onSuccess |-> Undef, onError |-> Undef,
           sortFn |-> Undef]

----------------------------------------------------------------------------
(* Map and plain-object helpers *)

MapHas(m, k) == \E i \in 1..Len(m) : m[i].key = k

\* a list push instead of Map.prototype.set: a repeated key adds an entry
MapSetAppends(m, k, v) == Append(m, [key |-> k, value |-> v])

\* Map.prototype.set: an existing key keeps its position, a new key is appended
MapSet(m, k, v) ==
    IF MapHas(m, k)
    THEN [i \in 1..Len(m) |-> IF m[i].key = k THEN [key |-> k, value |-> v] ELSE m[i]]
    ELSE Append(m, [key |-> k, value |-> v])

\* obj[k] = v on a plain object
ObjSet(o, k, v) == [x \in (DOMAIN o) \cup {k} |-> IF x = k THEN v ELSE o[x]]

EmptyObj == [x \in {} |-> 0]

RECURSIVE BuildMap(_, _)
BuildMap(candidates, i) ==
    IF i = 0 THEN << >>
    ELSE MapSet(BuildMap(candidates, i - 1), candidates[i].id, candidates[i])

RECURSIVE BuildVotes(_, _)
BuildVotes(candidates, i) ==
    IF i = 0 THEN EmptyObj
    ELSE ObjSet(BuildVotes(candidates, i - 1), candidates[i].id, 0)

RECURSIVE SumSet(_, _)
SumSet(o, keys) ==
    IF keys = {} THEN 0
    ELSE LET k == CHOOSE x \in keys : TRUE
         IN o[k] + SumSet(o, keys \ {k})

\* Object.values(votes).reduce((sum, count) => sum + count, 0)
TotalVotes(o) == SumSet(o, DOMAIN o)

----------------------------------------------------------------------------
(* createElection *)

VotingAge == 18

Init ==
    /\ \E candidates \in CandidateLists :
          /\ candidateMap = BuildMap(candidates, Len(candidates))
          /\ votes = BuildVotes(candidates, Len(candidates))
    /\ registeredVoters = {}
    /\ votedVoters = {}
    /\ call = NoCall
    /\ ret = Undef
    /\ invoked = << >>
    /\ results = << >>
    /\ winner = << >>
    /\ successCount = [v \in VoterIdArgs |-> 0]

----------------------------------------------------------------------------
(* registerVoter *)

\* registerVoter without the name test
RegisterVoterRejectsNoName(voter) ==
    \/ voter.kind = "null"
    \/ ~Truthy(voter.id)
    \/ TypeOf(voter.age) # "number"
    \/ NumLess(voter.age, VotingAge)
    \/ voter.id \in registeredVoters

\* registerVoter with `voter.age <= 18`
RegisterVoterRejectsAtEighteen(voter) ==
    \/ voter.kind = "null"
    \/ ~Truthy(voter.id)
    \/ ~Truthy(voter.name)
    \/ TypeOf(voter.age) # "number"
    \/ NumLess(voter.age, VotingAge + 1)
    \/ voter.id \in registeredVoters

\* the three early `return false` branches, in source order
RegisterVoterRejects(voter) ==
    \/ voter.kind = "null"
    \/ ~Truthy(voter.id)
    \/ ~Truthy(voter.name)
    \/ TypeOf(voter.age) # "number"
    \/ NumLess(voter.age, VotingAge)
    \/ voter.id \in registeredVoters

registerVoter(voter) ==
    /\ call' = [NoCall EXCEPT !.op = "registerVoter", !.voter = voter]
    /\ IF RegisterVoterRejects(voter)
       THEN /\ ret' = Bool(FALSE)
            /\ UNCHANGED registeredVoters
       ELSE /\ registeredVoters' = registeredVoters \cup {voter.id}
            /\ ret' = Bool(TRUE)
    /\ invoked' = << >>
    /\ results' = << >>
    /\ winner' = << >>
    /\ UNCHANGED <<candidateMap, votes, votedVoters, successCount>>
    /\ UNCHANGED notElection

----------------------------------------------------------------------------
(* castVote *)

\* what a callback returns: r => "voted!" and e => "error: " + e
Apply(fn, arg) ==
    IF fn.s = "voted" THEN Str("voted!") ELSE Str("error: " \o arg)

\* castVote without the votedVoters test
CastVoteBranchNoVotedCheck(voterId, candidateId, onSuccess, onError) ==
    IF TypeOf(onSuccess) # "function" \/ TypeOf(onError) # "function"
    THEN "null"
    ELSE IF voterId \notin registeredVoters
    THEN "Voter not registered"
    ELSE IF ~MapHas(candidateMap, candidateId)
    THEN "Invalid candidate"
    ELSE ""

\* castVote without the registeredVoters test
CastVoteBranchNoRegisteredCheck(voterId, candidateId, onSuccess, onError) ==
    IF TypeOf(onSuccess) # "function" \/ TypeOf(onError) # "function"
    THEN "null"
    ELSE IF voterId \in votedVoters
    THEN "Voter already voted"
    ELSE IF ~MapHas(candidateMap, candidateId)
    THEN "Invalid candidate"
    ELSE ""

\* castVote testing the candidate before the voter's ballot
CastVoteBranchCandidateFirst(voterId, candidateId, onSuccess, onError) ==
    IF TypeOf(onSuccess) # "function" \/ TypeOf(onError) # "function"
    THEN "null"
    ELSE IF voterId \notin registeredVoters
    THEN "Voter not registered"
    ELSE IF ~MapHas(candidateMap, candidateId)
    THEN "Invalid candidate"
    ELSE IF voterId \in votedVoters
    THEN "Voter already voted"
    ELSE ""

\* castVote with `&&` in the callback guard
CastVoteBranchAndGuard(voterId, candidateId, onSuccess, onError) ==
    IF TypeOf(onSuccess) # "function" /\ TypeOf(onError) # "function"
    THEN "null"
    ELSE IF voterId \notin registeredVoters
    THEN "Voter not registered"
    ELSE IF voterId \in votedVoters
    THEN "Voter already voted"
    ELSE IF ~MapHas(candidateMap, candidateId)
    THEN "Invalid candidate"
    ELSE ""

\* the branch castVote takes: "null" for the callback guard, a reason for
\* each onError branch, "" when every check passes
CastVoteBranch(voterId, candidateId, onSuccess, onError) ==
    IF TypeOf(onSuccess) # "function" \/ TypeOf(onError) # "function"
    THEN "null"
    ELSE IF voterId \notin registeredVoters
    THEN "Voter not registered"
    ELSE IF voterId \in votedVoters
    THEN "Voter already voted"
    ELSE IF ~MapHas(candidateMap, candidateId)
    THEN "Invalid candidate"
    ELSE ""

\* votes[candidateId] + 1 computed but not stored
IncrementVotesNoStore(o, candidateId) == ObjSet(o, candidateId, o[candidateId])

\* votes[candidateId]++
IncrementVotes(o, candidateId) == ObjSet(o, candidateId, o[candidateId] + 1)

\* castVote recording the ballot before it looks the candidate up
castVoteMarksFirst(voterId, candidateId, onSuccess, onError) ==
    LET branch == CastVoteBranch(voterId, candidateId, onSuccess, onError) IN
    /\ call' = [NoCall EXCEPT !.op = "castVote", !.voterId = voterId,
                              !.candidateId = candidateId,
                              !.onSuccess = onSuccess, !.onError = onError]
    /\ CASE branch = "null" ->
              /\ ret' = Null
              /\ invoked' = << >>
              /\ UNCHANGED <<votes, votedVoters, successCount>>
         [] branch = "" ->
              /\ votes' = IncrementVotes(votes, candidateId)
              /\ votedVoters' = votedVoters \cup {voterId}
              /\ invoked' = <<[cb |-> "onSuccess", reason |-> "",
                               voterId |-> voterId, candidateId |-> candidateId]>>
              /\ ret' = Apply(onSuccess, "")
              /\ successCount' = [successCount EXCEPT ![voterId] = @ + 1]
         [] branch = "Invalid candidate" ->
              /\ votedVoters' = votedVoters \cup {voterId}
              /\ invoked' = <<[cb |-> "onError", reason |-> branch,
                               voterId |-> Undef, candidateId |-> ""]>>
              /\ ret' = Apply(onError, branch)
              /\ UNCHANGED <<votes, successCount>>
         [] OTHER ->
              /\ invoked' = <<[cb |-> "onError", reason |-> branch,
                               voterId |-> Undef, candidateId |-> ""]>>
              /\ ret' = Apply(onError, branch)
              /\ UNCHANGED <<votes, votedVoters, successCount>>
    /\ results' = << >>
    /\ winner' = << >>
    /\ UNCHANGED <<candidateMap, registeredVoters>>
    /\ UNCHANGED notElection

\* castVote calling the callback without `return`
castVoteDropsReturn(voterId, candidateId, onSuccess, onError) ==
    LET branch == CastVoteBranch(voterId, candidateId, onSuccess, onError) IN
    /\ call' = [NoCall EXCEPT !.op = "castVote", !.voterId = voterId,
                              !.candidateId = candidateId,
                              !.onSuccess = onSuccess, !.onError = onError]
    /\ CASE branch = "null" ->
              /\ ret' = Null
              /\ invoked' = << >>
              /\ UNCHANGED <<votes, votedVoters, successCount>>
         [] branch = "" ->
              /\ votes' = IncrementVotes(votes, candidateId)
              /\ votedVoters' = votedVoters \cup {voterId}
              /\ invoked' = <<[cb |-> "onSuccess", reason |-> "",
                               voterId |-> voterId, candidateId |-> candidateId]>>
              /\ ret' = Undef
              /\ successCount' = [successCount EXCEPT ![voterId] = @ + 1]
         [] OTHER ->
              /\ invoked' = <<[cb |-> "onError", reason |-> branch,
                               voterId |-> Undef, candidateId |-> ""]>>
              /\ ret' = Undef
              /\ UNCHANGED <<votes, votedVoters, successCount>>
    /\ results' = << >>
    /\ winner' = << >>
    /\ UNCHANGED <<candidateMap, registeredVoters>>
    /\ UNCHANGED notElection

castVote(voterId, candidateId, onSuccess, onError) ==
    LET branch == CastVoteBranch(voterId, candidateId, onSuccess, onError) IN
    /\ call' = [NoCall EXCEPT !.op = "castVote", !.voterId = voterId,
                              !.candidateId = candidateId,
                              !.onSuccess = onSuccess, !.onError = onError]
    /\ CASE branch = "null" ->
              /\ ret' = Null
              /\ invoked' = << >>
              /\ UNCHANGED <<votes, votedVoters, successCount>>
         [] branch = "" ->
              /\ votes' = IncrementVotes(votes, candidateId)
              /\ votedVoters' = votedVoters \cup {voterId}
              /\ invoked' = <<[cb |-> "onSuccess", reason |-> "",
                               voterId |-> voterId, candidateId |-> candidateId]>>
              /\ ret' = Apply(onSuccess, "")
              /\ successCount' = [successCount EXCEPT ![voterId] = @ + 1]
         [] OTHER ->
              /\ invoked' = <<[cb |-> "onError", reason |-> branch,
                               voterId |-> Undef, candidateId |-> ""]>>
              /\ ret' = Apply(onError, branch)
              /\ UNCHANGED <<votes, votedVoters, successCount>>
    /\ results' = << >>
    /\ winner' = << >>
    /\ UNCHANGED <<candidateMap, registeredVoters>>
    /\ UNCHANGED notElection

----------------------------------------------------------------------------
(* getResults *)

\* the loop that pushes one entry per candidateMap entry
RECURSIVE BuildResults(_, _, _)
BuildResults(m, o, i) ==
    IF i = 0 THEN << >>
    ELSE Append(BuildResults(m, o, i - 1),
                [id |-> m[i].value.id, name |-> m[i].value.name,
                 party |-> m[i].value.party, votes |-> o[m[i].key]])

\* the default comparator written as a.votes - b.votes
CompareAscending(sortFn, a, b) ==
    IF Truthy(sortFn) /\ TypeOf(sortFn) = "function"
    THEN IF sortFn.s = "votesAsc" THEN a.votes - b.votes ELSE 0
    ELSE a.votes - b.votes

\* the comparator getResults hands to Array.prototype.sort
Compare(sortFn, a, b) ==
    IF Truthy(sortFn) /\ TypeOf(sortFn) = "function"
    THEN IF sortFn.s = "votesAsc" THEN a.votes - b.votes ELSE 0
    ELSE b.votes - a.votes

\* an unstable sort: x goes before the elements it compares equal to
InsertSortedUnstable(sorted, x, sortFn) ==
    LET after == {i \in 1..Len(sorted) : Compare(sortFn, sorted[i], x) >= 0}
        pos == IF after = {} THEN Len(sorted) + 1
               ELSE CHOOSE i \in after : \A j \in after : i <= j
    IN SubSeq(sorted, 1, pos - 1) \o <<x>> \o SubSeq(sorted, pos, Len(sorted))

\* x goes after every element that does not compare greater than it
InsertSorted(sorted, x, sortFn) ==
    LET after == {i \in 1..Len(sorted) : Compare(sortFn, sorted[i], x) > 0}
        pos == IF after = {} THEN Len(sorted) + 1
               ELSE CHOOSE i \in after : \A j \in after : i <= j
    IN SubSeq(sorted, 1, pos - 1) \o <<x>> \o SubSeq(sorted, pos, Len(sorted))

\* Array.prototype.sort, which is stable
RECURSIVE SortResults(_, _, _)
SortResults(arr, i, sortFn) ==
    IF i = 0 THEN << >>
    ELSE InsertSorted(SortResults(arr, i - 1, sortFn), arr[i], sortFn)

GetResults(sortFn) ==
    LET built == BuildResults(candidateMap, votes, Len(candidateMap))
    IN SortResults(built, Len(built), sortFn)

getResults(sortFn) ==
    /\ call' = [NoCall EXCEPT !.op = "getResults", !.sortFn = sortFn]
    /\ results' = GetResults(sortFn)
    /\ ret' = Undef
    /\ invoked' = << >>
    /\ winner' = << >>
    /\ UNCHANGED <<candidateMap, votes, registeredVoters, votedVoters, successCount>>
    /\ UNCHANGED notElection

----------------------------------------------------------------------------
(* getWinner *)

\* the scan with `>=`, which keeps the last candidate at the maximum
RECURSIVE ScanWinnerLastTie(_, _, _)
ScanWinnerLastTie(m, o, i) ==
    IF i = 0 THEN [maxVotes |-> -1, winner |-> << >>]
    ELSE LET acc == ScanWinnerLastTie(m, o, i - 1)
         IN IF o[m[i].key] >= acc.maxVotes
            THEN [maxVotes |-> o[m[i].key], winner |-> <<m[i].value>>]
            ELSE acc

\* the scan with maxVotes = -1, winner = null and the strict `>` test;
\* the accumulator is [maxVotes, winner], winner being << >> for null
RECURSIVE ScanWinner(_, _, _)
ScanWinner(m, o, i) ==
    IF i = 0 THEN [maxVotes |-> -1, winner |-> << >>]
    ELSE LET acc == ScanWinner(m, o, i - 1)
         IN IF o[m[i].key] > acc.maxVotes
            THEN [maxVotes |-> o[m[i].key], winner |-> <<m[i].value>>]
            ELSE acc

GetWinner ==
    IF TotalVotes(votes) = 0 THEN << >>
    ELSE ScanWinner(candidateMap, votes, Len(candidateMap)).winner

getWinner ==
    /\ call' = [NoCall EXCEPT !.op = "getWinner"]
    /\ winner' = GetWinner
    /\ ret' = Undef
    /\ invoked' = << >>
    /\ results' = << >>
    /\ UNCHANGED <<candidateMap, votes, registeredVoters, votedVoters, successCount>>
    /\ UNCHANGED notElection

----------------------------------------------------------------------------

Next ==
    \/ \E voter \in Voters : registerVoter(voter)
    \/ \E voterId \in VoterIdArgs, candidateId \in CandidateIdArgs,
          onSuccess \in SuccessCallbacks, onError \in ErrorCallbacks :
          castVote(voterId, candidateId, onSuccess, onError)
    \/ \E sortFn \in SortFns : getResults(sortFn)
    \/ getWinner

\* the election alone: the utilities' variables stay as they start
IdleTally ==
    /\ tallyHeap = << >>
    /\ tallyCall = [currentTally |-> 0, candidateId |-> ""]
    /\ tallyRet = 0
    /\ tallyRun = [from |-> 0, candidateId |-> "", n |-> 0]

\* the utilities alone: an election without candidates that nobody calls
IdleElection == Init /\ candidateMap = << >>

IdleRegions ==
    /\ regionNodes = << >>
    /\ regionStack = << >>
    /\ regionRet = 0
    /\ regionDone = FALSE

NoRules == [kind |-> "undefined", minAge |-> Undef, hasRequired |-> FALSE,
            requiredFields |-> << >>]

NoValidatorVoter == [kind |-> "undefined", proto |-> "none", own |-> {}, age |-> Undef]

NoVerdict == [threw |-> FALSE, valid |-> FALSE, reason |-> "-"]

IdleValidator ==
    /\ rules = NoRules
    /\ validatorCall = NoValidatorVoter
    /\ validatorRet = NoVerdict

NoStoreCall == [election |-> 0, op |-> "", voterId |-> Undef, candidateId |-> "",
                onSuccess |-> Undef, reason |-> "", ret |-> Undef]

NothingInside == [ran |-> FALSE, votesSeen |-> 0, reason |-> ""]

IdleStores ==
    /\ stores = << >>
    /\ elections = << >>
    /\ storeCall = NoStoreCall
    /\ inside = NothingInside

NoScopeCall == [op |-> "", ret |-> 0]

IdleResults ==
    /\ objects = << >>
    /\ arrays = << >>
    /\ scope = [candidateMap |-> << >>, votes |-> EmptyObj,
              registeredVoters |-> {}, votedVoters |-> {}]
    /\ scopeCall = NoScopeCall

InitElection ==
    Init /\ IdleTally /\ IdleRegions /\ IdleValidator /\ IdleStores /\ IdleResults

Spec == InitElection /\ [][Next]_vars

----------------------------------------------------------------------------
(* tallyPure *)

TallyKeys == {"a", "b"}
TallyIdArgs == {"a", "b", "c"}

\* the tallies a caller starts from: counts 0..1 under any of the keys
StartTallies == UNION {[keys -> 0..1] : keys \in SUBSET TallyKeys}

\* no spread: newTally is currentTally itself
SpreadTargetAlias(heap, currentTally) == currentTally

\* `{ ...currentTally }` makes a new object: the next free place in memory
SpreadTarget(heap, currentTally) == Len(heap) + 1

HeapPut(heap, addr, obj) ==
    IF addr <= Len(heap) THEN [heap EXCEPT ![addr] = obj] ELSE Append(heap, obj)

\* the if/else on newTally.hasOwnProperty(candidateId)
TallyBump(newTally, candidateId) ==
    IF candidateId \in DOMAIN newTally
    THEN ObjSet(newTally, candidateId, newTally[candidateId] + 1)
    ELSE ObjSet(newTally, candidateId, 1)

InitTally ==
    /\ IdleElection
    /\ \E t \in StartTallies : tallyHeap = <<t>>
    /\ tallyCall = [currentTally |-> 0, candidateId |-> ""]
    /\ tallyRet = 0
    /\ tallyRun = [from |-> 0, candidateId |-> "", n |-> 0]
    /\ IdleRegions
    /\ IdleValidator
    /\ IdleStores
    /\ IdleResults

tallyPure(currentTally, candidateId) ==
    LET newTally == SpreadTarget(tallyHeap, currentTally)
        copied == HeapPut(tallyHeap, newTally, tallyHeap[currentTally])
    IN /\ Len(tallyHeap) < MaxTallies
       /\ tallyHeap' = HeapPut(copied, newTally, TallyBump(copied[newTally], candidateId))
       /\ tallyCall' = [currentTally |-> currentTally, candidateId |-> candidateId]
       /\ tallyRet' = newTally
       /\ tallyRun' = IF currentTally = tallyRet /\ candidateId = tallyRun.candidateId
                      THEN [tallyRun EXCEPT !.n = @ + 1]
                      ELSE [from |-> currentTally, candidateId |-> candidateId, n |-> 1]
       /\ UNCHANGED notTally

NextTally ==
    \E currentTally \in 1..Len(tallyHeap), candidateId \in TallyIdArgs :
        tallyPure(currentTally, candidateId)

SpecTally == InitTally /\ [][NextTally]_tallyVars

----------------------------------------------------------------------------
(* countVotesInRegions *)

\* what a caller may put where a region is expected: a record with votes
\* missing, 0 or 2 whose subRegions is an array or some other holder of
\* the same references, null, or a string
RegionVotes == {Undef, Num(0), Num(2)}

RegionShapes ==
    [kind : {"object"}, votes : RegionVotes, isArray : BOOLEAN]
      \cup [kind : {"null", "string"}, votes : {Undef}, isArray : {FALSE}]

\* regions 2..n hang below an earlier record, so the structure is a finite
\* tree; sub lists a region's children in order
RegionParents(n, shape) ==
    {p \in [1..n -> 0..n] :
        /\ p[1] = 0
        /\ \A j \in 2..n : p[j] \in 1..(j - 1) /\ shape[p[j]].kind = "object"}

RegionTree(n, shape, parent) ==
    [i \in 1..n |->
        [kind |-> shape[i].kind, votes |-> shape[i].votes,
         isArray |-> shape[i].isArray,
         sub |-> SelectSeq([j \in 1..n |-> j], LAMBDA j : j > 1 /\ parent[j] = i)]]

RegionTrees ==
    UNION { UNION { {RegionTree(n, shape, parent) : parent \in RegionParents(n, shape)} :
                    shape \in [1..n -> RegionShapes] } :
            n \in 1..MaxRegions }

\* a call of countVotesInRegions(regionTree) about to run its body
RegionCall(regionTree) ==
    [regionTree |-> regionTree, pc |-> "check", next |-> 1, total |-> 0]

\* total = subRegion's result, dropping what was counted so far
AddSubRegionOverwrites(total, counted) == counted

\* total += countVotesInRegions(subRegion)
AddSubRegion(total, counted) == total + counted

\* `return value` of the innermost call: the caller adds it and moves on,
\* the outermost call hands it to whoever called
RegionReturn(stack, value) ==
    LET rest == SubSeq(stack, 1, Len(stack) - 1) IN
    IF rest = << >> THEN rest
    ELSE [rest EXCEPT ![Len(rest)].total = AddSubRegion(@, value),
                      ![Len(rest)].next = @ + 1]

InitRegions ==
    /\ IdleElection
    /\ IdleTally
    /\ regionNodes \in RegionTrees
    /\ regionStack = <<RegionCall(1)>>
    /\ regionRet = 0
    /\ regionDone = FALSE
    /\ IdleValidator
    /\ IdleStores
    /\ IdleResults

\* the guard and `let total = regionTree.votes || 0`
regionEnter ==
    /\ regionStack # << >>
    /\ LET top == regionStack[Len(regionStack)]
           regionTree == regionNodes[top.regionTree]
       IN /\ top.pc = "check"
          /\ IF regionTree.kind # "object"
             THEN /\ regionStack' = RegionReturn(regionStack, 0)
                  /\ IF Len(regionStack) = 1
                     THEN regionRet' = 0 /\ regionDone' = TRUE
                     ELSE UNCHANGED <<regionRet, regionDone>>
             ELSE /\ regionStack' =
                        [regionStack EXCEPT ![Len(regionStack)].pc = "loop",
                                            ![Len(regionStack)].total =
                                                IF Truthy(regionTree.votes)
                                                THEN regionTree.votes.n ELSE 0]
                  /\ UNCHANGED <<regionRet, regionDone>>
    /\ UNCHANGED regionNodes
    /\ UNCHANGED notRegions

\* one turn of the for loop under Array.isArray, or `return total`
regionLoop ==
    /\ regionStack # << >>
    /\ LET top == regionStack[Len(regionStack)]
           regionTree == regionNodes[top.regionTree]
       IN /\ top.pc = "loop"
          /\ IF regionTree.isArray /\ top.next <= Len(regionTree.sub)
             THEN /\ regionStack' = Append(regionStack, RegionCall(regionTree.sub[top.next]))
                  /\ UNCHANGED <<regionRet, regionDone>>
             ELSE /\ regionStack' = RegionReturn(regionStack, top.total)
                  /\ IF Len(regionStack) = 1
                     THEN regionRet' = top.total /\ regionDone' = TRUE
                     ELSE UNCHANGED <<regionRet, regionDone>>
    /\ UNCHANGED regionNodes
    /\ UNCHANGED notRegions

NextRegions ==
    \/ regionEnter
    \/ regionLoop

\* a call that has started keeps running: nothing else is scheduled
SpecRegions ==
    InitRegions /\ [][NextRegions]_regionVars /\ WF_regionVars(NextRegions)

----------------------------------------------------------------------------
(* createVoteValidator *)

\* what createVoteValidator may be given: nothing, or a record whose minAge
\* is missing, 0 or 18 and whose requiredFields is missing or a list
RuleSets ==
    {NoRules} \cup
    [kind : {"object"}, minAge : {Undef, Num(0), Num(VotingAge)},
     hasRequired : {FALSE}, requiredFields : {<< >>}] \cup
    [kind : {"object"}, minAge : {Undef, Num(0), Num(VotingAge)},
     hasRequired : {TRUE},
     requiredFields : {<< >>, <<"id">>, <<"id", "name", "age">>, <<"age", "id">>}]

\* what the validator may be given: null, nothing, a string, or a record
\* with some of id, name, age as own fields; proto says whether the record
\* inherits from Object.prototype or was made by Object.create(null)
ValidatorVoters ==
    [kind : {"null", "undefined", "string"}, proto : {"none"}, own : {{}},
     age : {Undef}] \cup
    [kind : {"object"}, proto : {"Object", "none"}, own : SUBSET {"id", "name"},
     age : {Undef}] \cup
    {[kind |-> "object", proto |-> proto, own |-> own \cup {"age"}, age |-> age] :
        proto \in {"Object", "none"}, own \in SUBSET {"id", "name"},
        age \in {Num(17), Num(VotingAge)}}

Verdict(valid, reason) == [threw |-> FALSE, valid |-> valid, reason |-> reason]

\* a TypeError leaves the validator without a result
Thrown == [threw |-> TRUE, valid |-> FALSE, reason |-> "TypeError"]

\* the for loop over rules.requiredFields from position i on: the verdict of
\* the first field voter.hasOwnProperty rejects, Thrown if voter has no
\* hasOwnProperty to call, "pass" when the loop runs out
RECURSIVE RequiredFieldsFrom(_, _, _)
RequiredFieldsFrom(fields, i, voter) ==
    IF i > Len(fields) THEN "pass"
    ELSE IF voter.proto # "Object" THEN "throw"
    ELSE IF fields[i] \notin voter.own THEN fields[i]
    ELSE RequiredFieldsFrom(fields, i + 1, voter)

\* voter.age < rules.minAge; a missing age is undefined and compares false
AgeBelow(voter, minAge) == voter.age.t = "number" /\ NumLess(voter.age, minAge.n)

\* the body of the returned function
Validate(r, voter) ==
    IF voter.kind # "object" THEN Verdict(FALSE, "Invalid voter object")
    ELSE IF r.kind # "object" THEN Thrown
    ELSE LET missing == IF r.hasRequired
                        THEN RequiredFieldsFrom(r.requiredFields, 1, voter)
                        ELSE "pass"
         IN IF missing = "throw" THEN Thrown
            ELSE IF missing # "pass" THEN Verdict(FALSE, "Missing field: " \o missing)
            ELSE IF Truthy(r.minAge) /\ AgeBelow(voter, r.minAge)
            THEN Verdict(FALSE, "Age must be at least " \o ToString(r.minAge.n))
            ELSE Verdict(TRUE, "")

InitValidator ==
    /\ IdleElection
    /\ IdleTally
    /\ IdleRegions
    /\ rules \in RuleSets
    /\ validatorCall = NoValidatorVoter
    /\ validatorRet = NoVerdict
    /\ IdleStores
    /\ IdleResults

validate(voter) ==
    /\ validatorCall' = voter
    /\ validatorRet' = Validate(rules, voter)
    /\ UNCHANGED rules
    /\ UNCHANGED notValidator

NextValidator == \E voter \in ValidatorVoters : validate(voter)

SpecValidator == InitValidator /\ [][NextValidator]_validatorVars

----------------------------------------------------------------------------
(* Two elections, and callbacks that call back into the election *)

ElectionIds == {1, 2}

\* the candidate lists the elections are created from
StoreLists ==
    { << [id |-> "C1", name |-> "Sarpanch Ram", party |-> "Janata"],
         [id |-> "C2", name |-> "Pradhan Sita", party |-> "Lok"] >>,
      << [id |-> "C2", name |-> "Pradhan Sita", party |-> "Lok"] >> }

StoreVoterIds == {Str("V1"), Str("V2")}
StoreVoters ==
    [kind : {"object"}, id : StoreVoterIds, name : {Str("Mohan")},
     age : {Num(17), Num(VotingAge)}]
StoreCandidateIds == {"C1", "C2"}

\* onSuccess callbacks: one that only returns, one that calls getResults(),
\* one that casts the same ballot again
StoreCallbacks == {Fn("voted"), Fn("getResults"), Fn("castVote")}

\* the votes field of the entry for candidateId in a getResults() array
SumVotesIn(r, candidateId) ==
    LET at == {j \in 1..Len(r) : r[j].id = candidateId}
    IN IF at = {} THEN 0 ELSE r[CHOOSE j \in at : TRUE].votes

\* a module-level environment: every createElection call uses the first
NewStoreShared(mem) == 1

\* the four `const` of createElection make a new environment on each call
NewStore(mem) == Len(mem) + 1

\* the environment after the constructor's loop
StoreCreate(candidates) ==
    [candidateMap |-> BuildMap(candidates, Len(candidates)),
     votes |-> BuildVotes(candidates, Len(candidates)),
     registeredVoters |-> {},
     votedVoters |-> {}]

\* registerVoter on environment e: does it return false
StoreRejects(e, voter) ==
    \/ voter.kind = "null"
    \/ ~Truthy(voter.id)
    \/ ~Truthy(voter.name)
    \/ TypeOf(voter.age) # "number"
    \/ NumLess(voter.age, VotingAge)
    \/ voter.id \in e.registeredVoters

\* castVote on environment e with callable callbacks: the onError reason,
\* "" when every check passes
StoreReason(e, voterId, candidateId) ==
    IF voterId \notin e.registeredVoters THEN "Voter not registered"
    ELSE IF voterId \in e.votedVoters THEN "Voter already voted"
    ELSE IF ~MapHas(e.candidateMap, candidateId) THEN "Invalid candidate"
    ELSE ""

\* votes[candidateId]++ and votedVoters.add(voterId)
StoreRecord(e, voterId, candidateId) ==
    [e EXCEPT !.votes = IncrementVotes(@, candidateId),
              !.votedVoters = @ \cup {voterId}]

\* a castVote whose callbacks only return: the environment it leaves
StoreCast(e, voterId, candidateId) ==
    IF StoreReason(e, voterId, candidateId) = "" THEN StoreRecord(e, voterId, candidateId)
    ELSE e

StoreResults(e) ==
    LET built == BuildResults(e.candidateMap, e.votes, Len(e.candidateMap))
    IN SortResults(built, Len(built), Undef)

StoreWinner(e) ==
    IF TotalVotes(e.votes) = 0 THEN << >>
    ELSE ScanWinner(e.candidateMap, e.votes, Len(e.candidateMap)).winner

\* onSuccess called ahead of the two updates
AtOnSuccessEarly(e, recorded) == e

\* the environment when line 115 calls onSuccess: both updates are done
AtOnSuccess(e, recorded) == recorded

InitStores ==
    /\ IdleElection
    /\ IdleTally
    /\ IdleRegions
    /\ IdleValidator
    /\ IdleStores
    /\ IdleResults

createElection(candidates) ==
    /\ Len(elections) < Cardinality(ElectionIds)
    /\ LET env == NewStore(stores)
       IN /\ stores' = HeapPut(stores, env, StoreCreate(candidates))
          /\ elections' = Append(elections, env)
    /\ storeCall' = [NoStoreCall EXCEPT !.election = Len(elections) + 1,
                                        !.op = "createElection"]
    /\ inside' = NothingInside
    /\ UNCHANGED notStores

registerVoterOn(i, voter) ==
    /\ i \in 1..Len(elections)
    /\ LET e == stores[elections[i]]
       IN IF StoreRejects(e, voter)
          THEN /\ UNCHANGED stores
               /\ storeCall' = [NoStoreCall EXCEPT !.election = i, !.op = "registerVoter",
                                                   !.voterId = voter.id,
                                                   !.ret = Bool(FALSE)]
          ELSE /\ stores' = [stores EXCEPT ![elections[i]].registeredVoters =
                                               @ \cup {voter.id}]
               /\ storeCall' = [NoStoreCall EXCEPT !.election = i, !.op = "registerVoter",
                                                   !.voterId = voter.id,
                                                   !.ret = Bool(TRUE)]
    /\ inside' = NothingInside
    /\ UNCHANGED elections
    /\ UNCHANGED notStores

castVoteOn(i, voterId, candidateId, onSuccess) ==
    /\ i \in 1..Len(elections)
    /\ LET e == stores[elections[i]]
           reason == StoreReason(e, voterId, candidateId)
           seen == AtOnSuccess(e, StoreRecord(e, voterId, candidateId))
           after == IF onSuccess.s = "castVote"
                    THEN StoreCast(seen, voterId, candidateId) ELSE seen
       IN /\ storeCall' = [NoStoreCall EXCEPT !.election = i, !.op = "castVote",
                                              !.voterId = voterId,
                                              !.candidateId = candidateId,
                                              !.onSuccess = onSuccess,
                                              !.reason = reason]
          /\ IF reason # ""
             THEN /\ UNCHANGED stores
                  /\ inside' = NothingInside
             ELSE /\ stores' = [stores EXCEPT ![elections[i]] = after]
                  /\ inside' =
                        CASE onSuccess.s = "getResults" ->
                               [ran |-> TRUE,
                                votesSeen |-> SumVotesIn(StoreResults(seen), candidateId),
                                reason |-> ""]
                          [] onSuccess.s = "castVote" ->
                               [ran |-> TRUE, votesSeen |-> 0,
                                reason |-> StoreReason(seen, voterId, candidateId)]
                          [] OTHER -> NothingInside
    /\ UNCHANGED elections
    /\ UNCHANGED notStores

NextStores ==
    \/ \E candidates \in StoreLists : createElection(candidates)
    \/ \E i \in ElectionIds, voter \in StoreVoters : registerVoterOn(i, voter)
    \/ \E i \in ElectionIds, voterId \in StoreVoterIds,
          candidateId \in StoreCandidateIds, onSuccess \in StoreCallbacks :
          castVoteOn(i, voterId, candidateId, onSuccess)

SpecStores == InitStores /\ [][NextStores]_storeVars

----------------------------------------------------------------------------
(* The arrays and objects getResults and getWinner hand to the caller *)

\* the caller's candidate objects; an object without a votes field has -1
CallerCandidates ==
    << [id |-> "C1", name |-> "Sarpanch Ram", party |-> "Janata", votes |-> -1],
       [id |-> "C2", name |-> "Pradhan Sita", party |-> "Lok", votes |-> -1] >>

\* the orders the caller may list them in
CallerLists == {<<1, 2>>, <<2, 1>>}

ResultVoter == [kind |-> "object", id |-> Str("V1"), name |-> Str("Mohan"),
                age |-> Num(VotingAge)]

\* what the caller writes over a votes field it got hold of
Scribbles == {99}

\* candidateMap.set(candidate.id, candidate): the map holds the caller's objects
RECURSIVE BuildRefMap(_, _, _)
BuildRefMap(mem, refs, i) ==
    IF i = 0 THEN << >>
    ELSE MapSet(BuildRefMap(mem, refs, i - 1), mem[refs[i]].id, refs[i])

RECURSIVE BuildRefVotes(_, _, _)
BuildRefVotes(mem, refs, i) ==
    IF i = 0 THEN EmptyObj
    ELSE ObjSet(BuildRefVotes(mem, refs, i - 1), mem[refs[i]].id, 0)

\* one array kept in the closure and handed out by every call
NewArrayKept(mem) == 1

\* `const results = []` makes a new array on each call
NewArray(mem) == Len(mem) + 1

\* results.push(candidate): the entry is the candidate object itself
NewEntryIsCandidate(mem, candidate) == candidate

\* the object literal pushed for the candidate makes a new object
NewEntry(mem, candidate) == Len(mem) + 1

\* the loop of getResults over the first i map entries: the memory after
\* the pushes and the references pushed, each with the votes it carries
RECURSIVE PushEntries(_, _, _, _)
PushEntries(mem, m, o, i) ==
    IF i = 0 THEN [mem |-> mem, pushed |-> << >>]
    ELSE LET sofar == PushEntries(mem, m, o, i - 1)
             candidate == sofar.mem[m[i].value]
             entry == NewEntry(sofar.mem, m[i].value)
         IN [mem |-> HeapPut(sofar.mem, entry,
                             [id |-> candidate.id, name |-> candidate.name,
                              party |-> candidate.party, votes |-> o[m[i].key]]),
             pushed |-> Append(sofar.pushed, [ref |-> entry, votes |-> o[m[i].key]])]

Reverse(arr) == [j \in 1..Len(arr) |-> arr[Len(arr) + 1 - j]]

InitResults ==
    /\ IdleElection
    /\ IdleTally
    /\ IdleRegions
    /\ IdleValidator
    /\ IdleStores
    /\ objects = CallerCandidates
    /\ arrays = << >>
    /\ \E refs \in CallerLists :
          scope = [candidateMap |-> BuildRefMap(objects, refs, Len(refs)),
                 votes |-> BuildRefVotes(objects, refs, Len(refs)),
                 registeredVoters |-> {},
                 votedVoters |-> {}]
    /\ scopeCall = NoScopeCall

scopeRegisterVoter ==
    /\ ~StoreRejects(scope, ResultVoter)
    /\ scope' = [scope EXCEPT !.registeredVoters = @ \cup {ResultVoter.id}]
    /\ scopeCall' = [op |-> "registerVoter", ret |-> 0]
    /\ UNCHANGED <<objects, arrays>>
    /\ UNCHANGED notResults

scopeCastVote(candidateId) ==
    /\ scope' = StoreCast(scope, ResultVoter.id, candidateId)
    /\ scopeCall' = [op |-> "castVote", ret |-> 0]
    /\ UNCHANGED <<objects, arrays>>
    /\ UNCHANGED notResults

scopeGetResults ==
    /\ Len(arrays) < MaxArrays
    /\ LET made == NewArray(arrays)
           built == PushEntries(objects, scope.candidateMap, scope.votes,
                                Len(scope.candidateMap))
           sorted == SortResults(built.pushed, Len(built.pushed), Undef)
       IN /\ objects' = built.mem
          /\ arrays' = HeapPut(arrays, made, [j \in 1..Len(sorted) |-> sorted[j].ref])
          /\ scopeCall' = [op |-> "getResults", ret |-> made]
    /\ UNCHANGED scope
    /\ UNCHANGED notResults

scopeGetWinner ==
    /\ LET found == IF TotalVotes(scope.votes) = 0 THEN << >>
                    ELSE ScanWinner(scope.candidateMap, scope.votes,
                                    Len(scope.candidateMap)).winner
       IN scopeCall' = [op |-> "getWinner",
                      ret |-> IF found = << >> THEN 0 ELSE found[1]]
    /\ UNCHANGED <<objects, arrays, scope>>
    /\ UNCHANGED notResults

\* the caller overwrites the votes of the first entry of an array it holds
callerSetsVotes(a) ==
    /\ a \in 1..Len(arrays)
    /\ arrays[a] # << >>
    /\ \E v \in Scribbles : objects' = [objects EXCEPT ![arrays[a][1]].votes = v]
    /\ scopeCall' = [op |-> "callerSetsVotes", ret |-> a]
    /\ UNCHANGED <<arrays, scope>>
    /\ UNCHANGED notResults

\* the caller reverses an array it holds
callerReverses(a) ==
    /\ a \in 1..Len(arrays)
    /\ arrays' = [arrays EXCEPT ![a] = Reverse(@)]
    /\ scopeCall' = [op |-> "callerReverses", ret |-> a]
    /\ UNCHANGED <<objects, scope>>
    /\ UNCHANGED notResults

\* the caller writes a votes field on the candidate getWinner returned
callerMarksWinner ==
    /\ scopeCall.op = "getWinner"
    /\ scopeCall.ret # 0
    /\ \E v \in Scribbles : objects' = [objects EXCEPT ![scopeCall.ret].votes = v]
    /\ scopeCall' = [op |-> "callerMarksWinner", ret |-> scopeCall.ret]
    /\ UNCHANGED <<arrays, scope>>
    /\ UNCHANGED notResults

NextResults ==
    \/ scopeRegisterVoter
    \/ \E candidateId \in StoreCandidateIds : scopeCastVote(candidateId)
    \/ scopeGetResults
    \/ scopeGetWinner
    \/ \E a \in 1..MaxArrays : callerSetsVotes(a)
    \/ \E a \in 1..MaxArrays : callerReverses(a)
    \/ callerMarksWinner

SpecResults == InitResults /\ [][NextResults]_resultVars

----------------------------------------------------------------------------
(* Vocabulary of the properties *)

OnSuccessCall(voterId, candidateId) ==
    <<[cb |-> "onSuccess", reason |-> "", voterId |-> voterId,
       candidateId |-> candidateId]>>

OnErrorCall(reason) ==
    <<[cb |-> "onError", reason |-> reason, voterId |-> Undef, candidateId |-> ""]>>

Callable(c) == c.onSuccess.t = "function" /\ c.onError.t = "function"

InvokedOnError == invoked # << >> /\ invoked[1].cb = "onError"
InvokedOnSuccess == invoked # << >> /\ invoked[1].cb = "onSuccess"

RECURSIVE SumVotesField(_, _)
SumVotesField(r, i) == IF i = 0 THEN 0 ELSE r[i].votes + SumVotesField(r, i - 1)

RECURSIVE SumCounts(_, _)
SumCounts(f, ids) ==
    IF ids = {} THEN 0
    ELSE LET v == CHOOSE x \in ids : TRUE IN f[v] + SumCounts(f, ids \ {v})

----------------------------------------------------------------------------
(* C1: in every reachable state the votes fields returned by getResults   *)
(* add up to the size of votedVoters, which is the number of castVote     *)
(* calls so far that invoked onSuccess.                                    *)

C1_VotesMatchVoters ==
    LET r == GetResults(Undef) IN
    /\ SumVotesField(r, Len(r)) = Cardinality(votedVoters)
    /\ Cardinality(votedVoters) = SumCounts(successCount, DOMAIN successCount)

C1_Witness ==
    /\ Cardinality(votedVoters) = 2
    /\ \E c \in DOMAIN votes : votes[c] = 2

----------------------------------------------------------------------------
(* C2: once a castVote for a voter id has invoked onSuccess, every later   *)
(* castVote with that id and callable callbacks, for any candidate id,     *)
(* invokes onError("Voter already voted") and changes no vote count; no    *)
(* voter id has more than one successful ballot.                           *)

C2_OneVotePerVoter ==
    /\ [][(/\ call'.op = "castVote"
            /\ Callable(call')
            /\ successCount[call'.voterId] > 0)
           => (/\ invoked' = OnErrorCall("Voter already voted")
               /\ votes' = votes)]_vars
    /\ [](\A v \in DOMAIN successCount : successCount[v] <= 1)

C2_Witness ==
    /\ call.op = "castVote"
    /\ successCount[call.voterId] = 1
    /\ ~MapHas(candidateMap, call.candidateId)
    /\ invoked = OnErrorCall("Voter already voted")

----------------------------------------------------------------------------
(* C3: in every reachable state votedVoters is a subset of                 *)
(* registeredVoters.                                                       *)

C3_VotedAreRegistered == votedVoters \subseteq registeredVoters

C3_Witness ==
    /\ votedVoters # {}
    /\ votedVoters # registeredVoters
    /\ call.op = "castVote"
    /\ call.voterId \notin registeredVoters

----------------------------------------------------------------------------
(* C4: castVote with callable callbacks reports the first failing check:   *)
(* an unregistered voter gives "Voter not registered", a registered voter  *)
(* who already voted gives "Voter already voted", whatever the candidate   *)
(* id; only a registered voter who has not voted and names an unknown      *)
(* candidate gives "Invalid candidate"; onError gets no other reason.      *)

C4_ErrorPriority ==
    [][(call'.op = "castVote" /\ Callable(call'))
       => LET v == call'.voterId
              known == MapHas(candidateMap, call'.candidateId)
          IN /\ v \notin registeredVoters
                  => invoked' = OnErrorCall("Voter not registered")
             /\ (v \in registeredVoters /\ v \in votedVoters)
                  => invoked' = OnErrorCall("Voter already voted")
             /\ invoked' = OnErrorCall("Invalid candidate")
                  <=> (v \in registeredVoters /\ v \notin votedVoters /\ ~known)
             /\ (invoked' # << >> /\ invoked'[1].cb = "onError")
                  => invoked'[1].reason \in {"Voter not registered",
                                            "Voter already voted",
                                            "Invalid candidate"}]_vars

C4_Witness ==
    /\ call.op = "castVote"
    /\ call.voterId \notin registeredVoters
    /\ ~MapHas(candidateMap, call.candidateId)
    /\ invoked = OnErrorCall("Voter not registered")

----------------------------------------------------------------------------
(* C5: a castVote call that invokes onError leaves votes, registeredVoters *)
(* and votedVoters as they were; after a rejection with "Invalid           *)
(* candidate" the same voter's next castVote for a known candidate invokes *)
(* onSuccess.                                                              *)

C5_ErrorPathReadOnly ==
    /\ [][(/\ call'.op = "castVote"
           /\ invoked' # << >>
           /\ invoked'[1].cb = "onError")
          => state' = state]_vars
    /\ [][(/\ call.op = "castVote"
           /\ invoked = OnErrorCall("Invalid candidate")
           /\ call'.op = "castVote"
           /\ Callable(call')
           /\ call'.voterId = call.voterId
           /\ MapHas(candidateMap, call'.candidateId))
          => (/\ invoked' = OnSuccessCall(call'.voterId, call'.candidateId)
              /\ call'.voterId \in votedVoters')]_vars

C5_Witness ==
    /\ call.op = "castVote"
    /\ invoked = OnErrorCall("Invalid candidate")
    /\ call.voterId \in registeredVoters \ votedVoters
    /\ candidateMap # << >>
    /\ votedVoters # {}

----------------------------------------------------------------------------
(* C6: when onSuccess or onError is not callable castVote returns null,    *)
(* invokes neither callback and leaves votes, registeredVoters and         *)
(* votedVoters unchanged, also for a registered voter who has not voted    *)
(* and a known candidate; the same call repeated with callable callbacks   *)
(* then invokes onSuccess.                                                 *)

C6_UncallableIsNoOp ==
    /\ [][(call'.op = "castVote" /\ ~Callable(call'))
          => (/\ ret' = Null
              /\ invoked' = << >>
              /\ state' = state
              /\ successCount' = successCount)]_vars
    /\ [][(/\ call.op = "castVote"
           /\ ~Callable(call)
           /\ call.voterId \in registeredVoters \ votedVoters
           /\ MapHas(candidateMap, call.candidateId)
           /\ call'.op = "castVote"
           /\ Callable(call')
           /\ call'.voterId = call.voterId
           /\ call'.candidateId = call.candidateId)
          => invoked' = OnSuccessCall(call.voterId, call.candidateId)]_vars

C6_Witness ==
    /\ call.op = "castVote"
    /\ call.onSuccess.t = "function"
    /\ call.onError.t # "function"
    /\ call.voterId \in registeredVoters \ votedVoters
    /\ MapHas(candidateMap, call.candidateId)
    /\ ret = Null
    /\ invoked = << >>

----------------------------------------------------------------------------
(* C7: registerVoter returns false and changes no state when the voter is  *)
(* missing, has an empty or missing id or name, has a non-number age, has  *)
(* age < 18, or has an id already in registeredVoters, whatever name and   *)
(* age that call carries.                                                  *)

EmptyOrMissing(v) == v.t = "undefined" \/ (v.t = "string" /\ v.s = "")

C7_RejectedRegistration ==
    [][(/\ call'.op = "registerVoter"
        /\ LET voter == call'.voter
           IN \/ voter.kind = "null"
              \/ EmptyOrMissing(voter.id)
              \/ EmptyOrMissing(voter.name)
              \/ voter.age.t # "number"
              \/ (voter.age.t = "number" /\ voter.age.s # "NaN" /\ voter.age.n < 18)
              \/ voter.id \in registeredVoters)
       => (/\ ret' = Bool(FALSE)
           /\ state' = state)]_vars

C7_Witness ==
    /\ call.op = "registerVoter"
    /\ call.voter.id \in registeredVoters
    /\ call.voter.age = NaN
    /\ ret = Bool(FALSE)
    /\ votedVoters # {}

----------------------------------------------------------------------------
(* C8: registerVoter of a well-formed voter with age >= 18 and an id not   *)
(* yet registered returns true and only adds voter.id to registeredVoters; *)
(* an id whose previous attempt was rejected can be registered by the next *)
(* well-formed call.                                                       *)

WellFormedAdult(voter) ==
    /\ voter.kind = "object"
    /\ voter.id.t = "string" /\ voter.id.s # ""
    /\ voter.name.t = "string" /\ voter.name.s # ""
    /\ voter.age.t = "number" /\ voter.age.s # "NaN" /\ voter.age.n >= 18

C8_AcceptedRegistration ==
    /\ [][(/\ call'.op = "registerVoter"
           /\ WellFormedAdult(call'.voter)
           /\ call'.voter.id \notin registeredVoters)
          => (/\ ret' = Bool(TRUE)
              /\ registeredVoters' = registeredVoters \cup {call'.voter.id}
              /\ votes' = votes
              /\ votedVoters' = votedVoters)]_vars
    /\ [][(/\ call.op = "registerVoter"
           /\ ret = Bool(FALSE)
           /\ call.voter.id \notin registeredVoters
           /\ call'.op = "registerVoter"
           /\ WellFormedAdult(call'.voter)
           /\ call'.voter.id = call.voter.id)
          => (ret' = Bool(TRUE) /\ call.voter.id \in registeredVoters')]_vars

C8_Witness ==
    /\ call.op = "registerVoter"
    /\ ret = Bool(TRUE)
    /\ call.voter.age = Num(18)
    /\ Cardinality(registeredVoters) = 2
    /\ votedVoters # {}

----------------------------------------------------------------------------
(* C9: getWinner returns null exactly when the vote counts add up to 0     *)
(* (also with no candidates); otherwise it returns the candidate at the    *)
(* first position of candidateMap whose count is the maximum.              *)

IsMaxAt(i) == \A j \in 1..Len(candidateMap) :
                  votes[candidateMap[j].key] <= votes[candidateMap[i].key]

C9_WinnerIsFirstMax ==
    call.op = "getWinner" =>
        /\ winner = << >> <=> TotalVotes(votes) = 0
        /\ winner # << >> =>
              \E i \in 1..Len(candidateMap) :
                  /\ winner = <<candidateMap[i].value>>
                  /\ IsMaxAt(i)
                  /\ \A j \in 1..(i - 1) : ~IsMaxAt(j)

C9_Witness ==
    /\ call.op = "getWinner"
    /\ Len(candidateMap) = 3
    /\ votes[candidateMap[1].key] = 0
    /\ votes[candidateMap[2].key] = 1
    /\ votes[candidateMap[3].key] = 1
    /\ winner = <<candidateMap[2].value>>

----------------------------------------------------------------------------
(* C10: getResults without a callable comparator returns one entry         *)
(* {id, name, party, votes} per candidate with its current count, ordered  *)
(* by votes descending, candidates of equal votes in candidateMap order.   *)

EntryOf(i) ==
    [id |-> candidateMap[i].value.id, name |-> candidateMap[i].value.name,
     party |-> candidateMap[i].value.party, votes |-> votes[candidateMap[i].key]]

PosOf(i) == CHOOSE j \in 1..Len(results) : results[j] = EntryOf(i)

C10_DefaultResultsOrder ==
    (call.op = "getResults" /\ call.sortFn.t # "function") =>
        /\ Len(results) = Len(candidateMap)
        /\ \A i \in 1..Len(candidateMap) :
              Cardinality({j \in 1..Len(results) : results[j].id = candidateMap[i].key}) = 1
        /\ \A i \in 1..Len(candidateMap) :
              \E j \in 1..Len(results) : results[j] = EntryOf(i)
        /\ \A j \in 1..(Len(results) - 1) : results[j].votes >= results[j + 1].votes
        /\ \A i1, i2 \in 1..Len(candidateMap) :
              (i1 < i2 /\ votes[candidateMap[i1].key] = votes[candidateMap[i2].key])
                  => PosOf(i1) < PosOf(i2)

C10_Witness ==
    /\ call.op = "getResults"
    /\ call.sortFn = Undef
    /\ Len(results) = 3
    /\ results[1].id = candidateMap[2].key
    /\ results[2].id = candidateMap[3].key
    /\ results[3].id = candidateMap[1].key
    /\ results[1].votes = 1
    /\ results[2].votes = 1

----------------------------------------------------------------------------
(* C11: a castVote call with callable callbacks invokes exactly one of     *)
(* onSuccess / onError, once, and returns what that callback returned;     *)
(* onSuccess gets {voterId, candidateId} of the call iff the voter is      *)
(* registered, has not voted and the candidate is known.                   *)

C11_OneCallbackItsValueReturned ==
    [][(call'.op = "castVote" /\ Callable(call'))
       => LET v == call'.voterId
              c == call'.candidateId
              accepted == /\ v \in registeredVoters
                          /\ v \notin votedVoters
                          /\ MapHas(candidateMap, c)
          IN /\ Len(invoked') = 1
             /\ invoked'[1].cb \in {"onSuccess", "onError"}
             /\ invoked' = OnSuccessCall(v, c) <=> accepted
             /\ invoked'[1].cb = "onSuccess" <=> accepted
             /\ invoked'[1].cb = "onSuccess" => ret' = Apply(call'.onSuccess, "")
             /\ invoked'[1].cb = "onError"
                  => ret' = Apply(call'.onError, invoked'[1].reason)]_vars

C11_Witness ==
    /\ call.op = "castVote"
    /\ Callable(call)
    /\ invoked = OnSuccessCall(call.voterId, call.candidateId)
    /\ ret = Str("voted!")
    /\ votes[call.candidateId] = 2

----------------------------------------------------------------------------
(* C18: the keys of votes are the keys of candidateMap, one entry and one  *)
(* counter per distinct candidate id; counters start at 0; a repeated id   *)
(* in the supplied list overwrites the earlier candidate in place; no      *)
(* operation adds a key or resets or decreases a counter.                  *)

KeysOf(m) == {m[i].key : i \in 1..Len(m)}

LastWithId(candidates, id) ==
    candidates[CHOOSE i \in 1..Len(candidates) :
                  /\ candidates[i].id = id
                  /\ \A j \in (i + 1)..Len(candidates) : candidates[j].id # id]

C18_CountersMatchCandidates ==
    /\ \A candidates \in CandidateLists :
          LET m == BuildMap(candidates, Len(candidates))
              o == BuildVotes(candidates, Len(candidates))
              ids == {candidates[i].id : i \in 1..Len(candidates)}
          IN /\ KeysOf(m) = ids
             /\ DOMAIN o = ids
             /\ Len(m) = Cardinality(ids)
             /\ \A i \in 1..Len(m) : m[i].value = LastWithId(candidates, m[i].key)
             /\ \A id \in ids : o[id] = 0
    /\ [](/\ DOMAIN votes = KeysOf(candidateMap)
          /\ Len(candidateMap) = Cardinality(KeysOf(candidateMap)))
    /\ [][/\ DOMAIN votes' = DOMAIN votes
          /\ candidateMap' = candidateMap
          /\ \A id \in DOMAIN votes : votes'[id] >= votes[id]]_vars

C18_Witness ==
    /\ call.op = "castVote"
    /\ call.candidateId = "CX"
    /\ invoked = OnErrorCall("Invalid candidate")
    /\ Len(candidateMap) = 2
    /\ candidateMap[2].value.name = "Shyam"
    /\ votes["C1"] = 1

----------------------------------------------------------------------------
(* C20: in every reachable state getWinner and the default getResults      *)
(* agree: with at least one vote cast the winner's id is the id of the     *)
(* first entry of getResults(), ties included; when getWinner is null      *)
(* every entry of getResults() has votes 0.                                *)

C20_WinnerHeadsResults ==
    LET r == GetResults(Undef)
        w == GetWinner
    IN /\ TotalVotes(votes) > 0 => (w # << >> /\ r # << >> /\ w[1].id = r[1].id)
       /\ w = << >> => \A j \in 1..Len(r) : r[j].votes = 0

C20_Witness ==
    /\ call.op = "getWinner"
    /\ Len(candidateMap) = 3
    /\ votes[candidateMap[1].key] = 1
    /\ votes[candidateMap[2].key] = 0
    /\ votes[candidateMap[3].key] = 1
    /\ winner = <<candidateMap[1].value>>

----------------------------------------------------------------------------
(* C14: tallyPure returns a new mapping, not the object it was given, in   *)
(* which candidateId maps to its old count + 1 (1 if it was absent) and    *)
(* every other key to its old count; the given tally has the same keys and *)
(* values afterwards; n calls in a row, each on the previous result with   *)
(* the same candidateId, raise only that candidate's count, by n.          *)

CountIn(tally, id) == IF id \in DOMAIN tally THEN tally[id] ELSE 0

C14_TallyPureCopies ==
    /\ [][tallyRet' # tallyRet =>
            LET given == tallyCall'.currentTally
                id == tallyCall'.candidateId
                old == tallyHeap[given]
                new == tallyHeap'[tallyRet']
            IN /\ tallyRet' # given
               /\ tallyRet' \notin 1..Len(tallyHeap)
               /\ \A a \in 1..Len(tallyHeap) : tallyHeap'[a] = tallyHeap[a]
               /\ DOMAIN new = DOMAIN old \cup {id}
               /\ new[id] = CountIn(old, id) + 1
               /\ \A k \in DOMAIN old \ {id} : new[k] = old[k]]_tallyVars
    /\ [](tallyRun.n > 0 =>
            LET start == tallyHeap[tallyRun.from]
                last == tallyHeap[tallyRet]
                id == tallyRun.candidateId
            IN /\ last[id] = CountIn(start, id) + tallyRun.n
               /\ \A k \in DOMAIN last \ {id} : k \in DOMAIN start /\ last[k] = start[k])

C14_Witness ==
    /\ tallyRun.n = 3
    /\ tallyRun.candidateId = "c"
    /\ tallyHeap[tallyRet]["c"] = 3
    /\ tallyHeap[1] = [k \in TallyKeys |-> 1]

----------------------------------------------------------------------------
(* C15: on a finite acyclic region tree countVotesInRegions terminates     *)
(* and returns the sum of the votes of the root and of all descendants at  *)
(* any depth; missing or zero votes count 0, a region whose subRegions is  *)
(* not an array counts only its own votes, null or a non-record counts 0.  *)

ParentOf(i) == CHOOSE j \in 1..Len(regionNodes) :
                   \E k \in 1..Len(regionNodes[j].sub) : regionNodes[j].sub[k] = i

\* i is the root or sits in the subRegions array of a region in the tree
RECURSIVE InRegionTree(_)
InRegionTree(i) ==
    IF i = 1 THEN TRUE
    ELSE regionNodes[ParentOf(i)].isArray /\ InRegionTree(ParentOf(i))

OwnVotes(i) ==
    IF regionNodes[i].kind = "object" /\ regionNodes[i].votes.t = "number"
    THEN regionNodes[i].votes.n ELSE 0

RECURSIVE SumOwnVotes(_)
SumOwnVotes(ids) ==
    IF ids = {} THEN 0
    ELSE LET i == CHOOSE x \in ids : TRUE IN OwnVotes(i) + SumOwnVotes(ids \ {i})

C15_RegionsSummed ==
    /\ [](regionDone =>
            regionRet = SumOwnVotes({i \in 1..Len(regionNodes) : InRegionTree(i)}))
    /\ <>regionDone

C15_Witness ==
    /\ regionDone
    /\ Len(regionNodes) = 3
    /\ regionNodes[1].sub = <<2>>
    /\ regionNodes[2].sub = <<3>>
    /\ regionNodes[1].isArray /\ regionNodes[2].isArray
    /\ regionRet = 6

----------------------------------------------------------------------------
(* C13: no call raises an error: failure is reported by false, null,       *)
(* {valid: false, reason} or onError; a malformed voter record given to    *)
(* the validator is an ordinary validation failure.                        *)

C13_NothingThrows == ~validatorRet.threw

----------------------------------------------------------------------------
(* C16: the validator reports the first failing check: a non-record voter  *)
(* gives "Invalid voter object"; else the first field of requiredFields    *)
(* the voter lacks gives "Missing field: <field>", before any age test;    *)
(* else a truthy minAge above voter.age gives "Age must be at least        *)
(* <minAge>"; else {valid: true, reason: ""}; valid iff reason is "".      *)

Lacking(voter) ==
    {i \in 1..Len(rules.requiredFields) : rules.requiredFields[i] \notin voter.own}

C16_ValidatorOrder ==
    (validatorRet # NoVerdict /\ rules.kind = "object") =>
        LET voter == validatorCall
            lacking == IF rules.hasRequired THEN Lacking(voter) ELSE {}
            first == CHOOSE i \in lacking : \A j \in lacking : i <= j
            tooYoung == /\ rules.minAge.t = "number" /\ rules.minAge.n # 0
                        /\ voter.age.t = "number"
                        /\ voter.age.n < rules.minAge.n
        IN /\ ~validatorRet.threw
           /\ validatorRet.valid <=> validatorRet.reason = ""
           /\ validatorRet.reason =
                 IF voter.kind # "object" THEN "Invalid voter object"
                 ELSE IF lacking # {}
                 THEN "Missing field: " \o rules.requiredFields[first]
                 ELSE IF tooYoung
                 THEN "Age must be at least " \o ToString(rules.minAge.n)
                 ELSE ""

----------------------------------------------------------------------------
(* C12: two elections share no state: a createElection, registerVoter or   *)
(* castVote call on one leaves the other's registeredVoters, votedVoters,  *)
(* vote counts, getResults and getWinner as they were, also when both were *)
(* created from the same candidate list and use the same voter ids.        *)

ViewOf(mem, handles, j) ==
    LET e == mem[handles[j]]
    IN [registeredVoters |-> e.registeredVoters, votedVoters |-> e.votedVoters,
        votes |-> e.votes, results |-> StoreResults(e), winner |-> StoreWinner(e)]

C12_ElectionsIndependent ==
    [][\A j \in 1..Len(elections) :
          j # storeCall'.election
              => ViewOf(stores', elections', j) = ViewOf(stores, elections, j)]_storeVars

C12_Witness ==
    /\ Len(elections) = 2
    /\ stores[elections[1]].candidateMap = stores[elections[2]].candidateMap
    /\ storeCall.election = 1
    /\ storeCall.op = "castVote"
    /\ storeCall.reason = ""
    /\ storeCall.voterId \in stores[elections[2]].registeredVoters
    /\ storeCall.voterId \notin stores[elections[2]].votedVoters
    /\ StoreWinner(stores[elections[2]]) # << >>
    /\ StoreWinner(stores[elections[1]]) # StoreWinner(stores[elections[2]])

----------------------------------------------------------------------------
(* C17: on the success path castVote has incremented votes[candidateId]    *)
(* and added voterId to votedVoters when it invokes onSuccess: a           *)
(* getResults call made inside onSuccess counts the vote, a castVote for   *)
(* the same voterId made inside onSuccess gets "Voter already voted", and  *)
(* the call counts one vote in all.                                        *)

C17_UpdatesBeforeOnSuccess ==
    [][(storeCall'.op = "castVote" /\ storeCall'.reason = "")
       => LET i == storeCall'.election
              v == storeCall'.voterId
              c == storeCall'.candidateId
              before == stores[elections[i]]
              after == stores'[elections'[i]]
          IN /\ after.votes[c] = before.votes[c] + 1
             /\ TotalVotes(after.votes) = TotalVotes(before.votes) + 1
             /\ after.votedVoters = before.votedVoters \cup {v}
             /\ storeCall'.onSuccess = Fn("getResults")
                  => (inside'.ran /\ inside'.votesSeen = before.votes[c] + 1)
             /\ storeCall'.onSuccess = Fn("castVote")
                  => (inside'.ran /\ inside'.reason = "Voter already voted")]_storeVars

C17_Witness ==
    /\ storeCall.op = "castVote"
    /\ storeCall.reason = ""
    /\ storeCall.onSuccess = Fn("castVote")
    /\ inside.ran
    /\ inside.reason = "Voter already voted"
    /\ stores[elections[storeCall.election]].votes[storeCall.candidateId] = 2

\* the reference x was already in use in a memory
InUse(mem, x) == x \in 1..Len(mem)

\* the votes the election holds for the candidate an object describes
HeldVotes(obj) == scope.votes[obj.id]

\* C19: getResults and getWinner never change votes, registeredVoters or
\* votedVoters; each getResults call returns an array that did not exist
\* before, filled with one new object per candidate, and leaves every array
\* and object that existed before as it was; whatever the caller did to
\* arrays, entries or the winner it received earlier, the entries of a
\* getResults call carry the votes the election holds and getWinner returns
\* null without votes and otherwise a candidate with the most votes held.
C19_ReadOnlyFreshResults ==
    [][ /\ scopeCall'.op \in {"getResults", "getWinner"} => scope' = scope
        /\ scopeCall'.op = "getResults" =>
              LET r == scopeCall'.ret
              IN /\ ~InUse(arrays, r)
                 /\ \A a \in 1..Len(arrays) : arrays'[a] = arrays[a]
                 /\ \A x \in 1..Len(objects) : objects'[x] = objects[x]
                 /\ Len(arrays'[r]) = Len(scope.candidateMap)
                 /\ \A j \in 1..Len(arrays'[r]) :
                       /\ ~InUse(objects, arrays'[r][j])
                       /\ \A k \in 1..Len(arrays'[r]) :
                             arrays'[r][j] = arrays'[r][k] => j = k
                       /\ objects'[arrays'[r][j]].votes
                             = HeldVotes(objects'[arrays'[r][j]])
        /\ scopeCall'.op = "getWinner" =>
              IF TotalVotes(scope.votes) = 0 THEN scopeCall'.ret = 0
              ELSE /\ scopeCall'.ret # 0
                   /\ \A i \in 1..Len(scope.candidateMap) :
                         scope.votes[scope.candidateMap[i].key]
                           <= HeldVotes(objects[scopeCall'.ret])
      ]_resultVars

\* a second getResults call, made after a vote was counted and after the
\* caller overwrote the votes of an entry of the first array
C19_Witness ==
    /\ scopeCall = [op |-> "getResults", ret |-> 2]
    /\ TotalVotes(scope.votes) = 1
    /\ \E j \in 1..Len(arrays[1]) : objects[arrays[1][j]].votes \in Scribbles
    /\ \A j \in 1..Len(arrays[2]) :
          objects[arrays[2][j]].votes = HeldVotes(objects[arrays[2][j]])
====
